---- MODULE Spec2Model ----
(***************************************************************************)
(* Model of src/app.py: a Streamlit page that reads an uploaded table with *)
(* every cell as text, normalizes the column headers, coerces fixed        *)
(* groups of columns, stamps a load_time column and, on a button press,    *)
(* appends the batch to a BigQuery table.                                  *)
(*                                                                         *)
(* Text is a sequence of one-character strings, so that the string         *)
(* operations of the source (strip, lower, replace, re.sub) are computed   *)
(* character by character.                                                 *)
(***************************************************************************)
EXTENDS Integers, Sequences, FiniteSets, TLC

VARIABLES
    col_in,        \* clean_column: the raw column name passed in
    col_out,       \* clean_column(col_in)
    col_again,     \* clean_column(col_out)
    cpc,           \* position of the clean_column harness
    raw,           \* the table as read from the uploaded file (dtype=str)
    df,            \* the DataFrame the script transforms in place
    series_clean,  \* per column: the texts handed to pd.to_datetime
    pc,            \* position of the script
    clock,         \* number of script runs so far; datetime.utcnow() reads it
    requests,      \* load jobs issued by the current button press
    disposition,   \* write disposition of the last load job
    outcome,       \* result of the last load job: "none", "ok", "failed"
    shown,         \* what the button handler has written to the page
    presses        \* button presses so far

vars == <<col_in, col_out, col_again, cpc, raw, df, series_clean, pc, clock,
          requests, disposition, outcome, shown, presses>>

(***************************************************************************)
(* Bounds                                                                  *)
(***************************************************************************)
MaxNameLen == 3
MaxCols == 2
MaxRows == 1
MaxPresses == 1

(***************************************************************************)
(* Text helpers (Python str methods)                                       *)
(***************************************************************************)
Whitespace == {" ", "\t"}

UpperLetters ==
    {"A", "B", "C", "D", "E", "F", "G", "H", "I", "J", "K", "L", "M",
     "N", "O", "P", "Q", "R", "S", "T", "U", "V", "W", "X", "Y", "Z"}

LowerLetters ==
    {"a", "b", "c", "d", "e", "f", "g", "h", "i", "j", "k", "l", "m",
     "n", "o", "p", "q", "r", "s", "t", "u", "v", "w", "x", "y", "z"}

Digits == {"0", "1", "2", "3", "4", "5", "6", "7", "8", "9"}

LowerOf ==
    [c \in UpperLetters |->
        CASE c = "A" -> "a" [] c = "B" -> "b" [] c = "C" -> "c" [] c = "D" -> "d"
          [] c = "E" -> "e" [] c = "F" -> "f" [] c = "G" -> "g" [] c = "H" -> "h"
          [] c = "I" -> "i" [] c = "J" -> "j" [] c = "K" -> "k" [] c = "L" -> "l"
          [] c = "M" -> "m" [] c = "N" -> "n" [] c = "O" -> "o" [] c = "P" -> "p"
          [] c = "Q" -> "q" [] c = "R" -> "r" [] c = "S" -> "s" [] c = "T" -> "t"
          [] c = "U" -> "u" [] c = "V" -> "v" [] c = "W" -> "w" [] c = "X" -> "x"
          [] c = "Y" -> "y" [] c = "Z" -> "z"]

\* str.lower()
Lower(s) == [i \in 1..Len(s) |-> IF s[i] \in UpperLetters THEN LowerOf[s[i]] ELSE s[i]]

RECURSIVE LStrip(_)
LStrip(s) == IF s # <<>> /\ Head(s) \in Whitespace THEN LStrip(Tail(s)) ELSE s

RECURSIVE RStrip(_)
RStrip(s) ==
    IF s # <<>> /\ s[Len(s)] \in Whitespace THEN RStrip(SubSeq(s, 1, Len(s) - 1)) ELSE s

\* str.strip()
Strip(s) == RStrip(LStrip(s))

\* str.replace(old, new): left to right, non-overlapping, a single pass
RECURSIVE Replace(_, _, _)
Replace(s, old, new) ==
    IF Len(s) < Len(old) THEN s
    ELSE IF SubSeq(s, 1, Len(old)) = old
         THEN new \o Replace(SubSeq(s, Len(old) + 1, Len(s)), old, new)
         ELSE <<Head(s)>> \o Replace(Tail(s), old, new)

\* The Python string a character sequence stands for
RECURSIVE Str(_)
Str(s) == IF s = <<>> THEN "" ELSE Head(s) \o Str(Tail(s))

Contains(s, c) == \E i \in 1..Len(s) : s[i] = c

HasDoubledUnderscore(s) == \E i \in 1..(Len(s) - 1) : s[i] = "_" /\ s[i + 1] = "_"

(***************************************************************************)
(* clean_column                                                            *)
(***************************************************************************)
\* mutant: the '#' expansion is written with a capital letter
clean_column_capital(col) ==
    LET a == Lower(Strip(col))
        b == Replace(Replace(Replace(a, <<" ">>, <<"_">>), <<"-">>, <<"_">>), <<"/">>, <<"_">>)
        c == Replace(b, <<"#">>, <<"N", "u", "m", "b", "e", "r">>)
    IN  Replace(c, <<"_", "_">>, <<"_">>)

\* mutant: the replacement of '/' is left out
clean_column_noslash(col) ==
    LET a == Lower(Strip(col))
        b == Replace(Replace(a, <<" ">>, <<"_">>), <<"-">>, <<"_">>)
        c == Replace(b, <<"#">>, <<"n", "u", "m", "b", "e", "r">>)
    IN  Replace(c, <<"_", "_">>, <<"_">>)

clean_column(col) ==
    LET a == Lower(Strip(col))
        b == Replace(Replace(Replace(a, <<" ">>, <<"_">>), <<"-">>, <<"_">>), <<"/">>, <<"_">>)
        c == Replace(b, <<"#">>, <<"n", "u", "m", "b", "e", "r">>)
    IN  Replace(c, <<"_", "_">>, <<"_">>)

(***************************************************************************)
(* Cells of a DataFrame.  Every cell is a record [t, v]: text, a float, a  *)
(* nullable integer, a date, the load timestamp, or one of the missing     *)
(* values NaN (object and float columns), <NA> (Int64) and NaT (dates).    *)
(***************************************************************************)
Text(s) == [t |-> "str", v |-> s]
NaN == [t |-> "nan", v |-> <<>>]
Num(n, d) == [t |-> "num", v |-> <<n, d>>]
Int64(n) == [t |-> "int", v |-> <<n>>]
NA == [t |-> "NA", v |-> <<>>]
Date(y, m, d) == [t |-> "date", v |-> <<y, m, d>>]
NaT == [t |-> "NaT", v |-> <<>>]
Timestamp(k) == [t |-> "datetime", v |-> <<k>>]

IsMissing(c) == c.t \in {"nan", "NA", "NaT"}

DigitVal(c) ==
    CASE c = "0" -> 0 [] c = "1" -> 1 [] c = "2" -> 2 [] c = "3" -> 3 [] c = "4" -> 4
      [] c = "5" -> 5 [] c = "6" -> 6 [] c = "7" -> 7 [] c = "8" -> 8 [] c = "9" -> 9

AllDigits(s) == \A i \in 1..Len(s) : s[i] \in Digits

RECURSIVE Value(_)
Value(s) == IF s = <<>> THEN 0 ELSE 10 * Value(SubSeq(s, 1, Len(s) - 1)) + DigitVal(s[Len(s)])

RECURSIVE Pow10(_)
Pow10(k) == IF k = 0 THEN 1 ELSE 10 * Pow10(k - 1)

RECURSIVE StripZeros(_)
StripZeros(s) ==
    IF s # <<>> /\ s[Len(s)] = "0" THEN StripZeros(SubSeq(s, 1, Len(s) - 1)) ELSE s

\* pd.to_numeric(..., errors="coerce") on one cell: a decimal literal
\* [-]digits[.digits] becomes the number n/d, anything else becomes NaN
ParseNumber(s) ==
    LET neg == s # <<>> /\ Head(s) = "-"
        body == IF neg THEN Tail(s) ELSE s
        dots == {i \in 1..Len(body) : body[i] = "."}
        dot == IF dots = {} THEN Len(body) + 1 ELSE CHOOSE i \in dots : TRUE
        whole == SubSeq(body, 1, dot - 1)
        frac == StripZeros(SubSeq(body, dot + 1, Len(body)))
        ok == /\ Cardinality(dots) <= 1
              /\ AllDigits(whole) /\ AllDigits(frac)
              /\ Len(body) - Cardinality(dots) >= 1
        n == Value(whole \o frac)
    IN  IF ok THEN Num(IF neg THEN 0 - n ELSE n, Pow10(Len(frac))) ELSE NaN

to_numeric(c) == IF c.t = "str" THEN ParseNumber(c.v) ELSE c

to_numeric_series(series) == [r \in 1..Len(series) |-> to_numeric(series[r])]

\* Series.astype(str) on one cell of an object column: NaN becomes the text "nan"
astype_str(c) == IF c.t = "nan" THEN Text(<<"n", "a", "n">>) ELSE c

astype_str_series(series) == [r \in 1..Len(series) |-> astype_str(series[r])]

\* Series.astype("Int64") on one cell of a numeric column; a float that is
\* not a whole number cannot be cast and makes the call raise TypeError
CanCastInt64(c) == c.t = "nan" \/ (c.t = "num" /\ c.v[2] = 1)
astype_Int64(c) == IF c.t = "nan" THEN NA ELSE Int64(c.v[1])

astype_Int64_series(series) == [r \in 1..Len(series) |-> astype_Int64(series[r])]

(***************************************************************************)
(* re.sub(r"\b[A-Z]{2,4}\b", "", x).strip()                                 *)
(***************************************************************************)
IsWordChar(c) == c \in UpperLetters \cup LowerLetters \cup Digits \cup {"_"}

IsWordAt(s, j) == j \in 1..Len(s) /\ IsWordChar(s[j])

\* \b between the characters at positions p and p + 1
WordBoundary(s, p) == IsWordAt(s, p) # IsWordAt(s, p + 1)

MatchAt(s, i, k) ==
    /\ i + k - 1 <= Len(s)
    /\ \A j \in i..(i + k - 1) : s[j] \in UpperLetters
    /\ WordBoundary(s, i - 1)
    /\ WordBoundary(s, i + k - 1)

\* the greedy quantifier tries 4, then 3, then 2 letters
MatchLen(s, i) ==
    IF MatchAt(s, i, 4) THEN 4
    ELSE IF MatchAt(s, i, 3) THEN 3
    ELSE IF MatchAt(s, i, 2) THEN 2
    ELSE 0

RECURSIVE SubFrom(_, _)
SubFrom(s, i) ==
    IF i > Len(s) THEN <<>>
    ELSE IF MatchLen(s, i) > 0 THEN SubFrom(s, i + MatchLen(s, i))
         ELSE <<s[i]>> \o SubFrom(s, i + 1)

\* the lambda of parse_datetime_with_tz and parse_date
strip_tz(x) == Strip(SubFrom(x, 1))

(***************************************************************************)
(* pd.to_datetime(..., errors="coerce").dt.date on one text: an ISO date,  *)
(* optionally followed by a time of day, gives its calendar date; other    *)
(* texts give NaT                                                          *)
(***************************************************************************)
IsLeap(y) == (y % 4 = 0 /\ y % 100 # 0) \/ y % 400 = 0

DaysIn(y, m) ==
    IF m = 2 THEN (IF IsLeap(y) THEN 29 ELSE 28)
    ELSE IF m \in {4, 6, 9, 11} THEN 30 ELSE 31

IsClock(s) ==
    /\ Len(s) = 8
    /\ s[3] = ":" /\ s[6] = ":"
    /\ AllDigits(<<s[1], s[2], s[4], s[5], s[7], s[8]>>)
    /\ Value(<<s[1], s[2]>>) < 24
    /\ Value(<<s[4], s[5]>>) < 60
    /\ Value(<<s[7], s[8]>>) < 60

to_date(s) ==
    LET y == Value(SubSeq(s, 1, 4))
        m == Value(SubSeq(s, 6, 7))
        d == Value(SubSeq(s, 9, 10))
        rest == SubSeq(s, 11, Len(s))
        ok == /\ Len(s) >= 10
              /\ s[5] = "-" /\ s[8] = "-"
              /\ AllDigits(SubSeq(s, 1, 4) \o SubSeq(s, 6, 7) \o SubSeq(s, 9, 10))
              /\ m \in 1..12 /\ d \in 1..DaysIn(y, m)
              /\ \/ rest = <<>>
                 \/ Head(rest) \in {" ", "T"} /\ IsClock(LStrip(Tail(rest)))
    IN  IF ok THEN Date(y, m, d) ELSE NaT

(***************************************************************************)
(* The DataFrame: a sequence of column labels and, in the same order, the  *)
(* columns' cells.  Labels may repeat.                                     *)
(***************************************************************************)
NRows(d) == Len(d.data[1])

\* the positions df[name] selects
Locs(d, name) == {i \in 1..Len(d.columns) : Str(d.columns[i]) = name}

TheLoc(d, name) == CHOOSE i \in Locs(d, name) : TRUE

numeric_fields ==
    <<"settlement_amount", "authorization_amount", "total_amount",
      "reserved15", "reserved16", "reserved17", "reserved18", "reserved19", "reserved20">>

datetime_fields == <<"settlement_date_time", "submit_date_time">>

business_day == "business_day"

reserved_fields ==
    <<"reserved15", "reserved16", "reserved17", "reserved18", "reserved19", "reserved20">>

string_columns ==
    <<"bank_account_number", "routing_number", "card_number", "customer_id", "invoice_number">>

Range(f) == {f[i] : i \in DOMAIN f}

DateNames == Range(datetime_fields) \cup {business_day}

GroupNames == Range(numeric_fields) \cup DateNames \cup Range(string_columns)

\* mutant: the renamed columns are collected in a dict, so that a later
\* column replaces an earlier one of the same name
CleanColumnsDict(file) ==
    LET names == [i \in 1..Len(file.columns) |-> clean_column(file.columns[i])]
        keep == {i \in 1..Len(names) : \A j \in 1..(i - 1) : names[j] # names[i]}
        last(i) == CHOOSE j \in 1..Len(names) :
                      names[j] = names[i] /\ \A k \in (j + 1)..Len(names) : names[k] # names[i]
        pick == SelectSeq([i \in 1..Len(names) |-> i], LAMBDA i : i \in keep)
    IN  [columns |-> [k \in 1..Len(pick) |-> names[pick[k]]],
         data |-> [k \in 1..Len(pick) |-> file.data[last(pick[k])]]]

\* line 54: df.columns = [clean_column(c) for c in df.columns]; the labels
\* are rewritten position by position, the cells are not touched
CleanColumns(file) ==
    [columns |-> [i \in 1..Len(file.columns) |-> clean_column(file.columns[i])],
     data |-> file.data]

\* A run of the coercion stage: the frame, whether an exception was raised,
\* and the texts each date column handed to pd.to_datetime
Started(d) == [df |-> d, ok |-> TRUE, clean |-> [i \in 1..Len(d.columns) |-> <<>>]]

\* lines 62-63; with a repeated label df[col] is a DataFrame and
\* pd.to_numeric raises TypeError
NumericCol(st, col) ==
    IF ~st.ok \/ Locs(st.df, col) = {} THEN st
    ELSE IF Cardinality(Locs(st.df, col)) > 1 THEN [st EXCEPT !.ok = FALSE]
    ELSE [st EXCEPT !.df.data[TheLoc(st.df, col)] = to_numeric_series(@)]

RECURSIVE NumericLoop(_, _)
NumericLoop(st, cols) ==
    IF cols = <<>> THEN st ELSE NumericLoop(NumericCol(st, Head(cols)), Tail(cols))

\* lines 28-38: parse_datetime_with_tz and parse_date have the same body
series_clean_of(series) == [r \in 1..Len(series) |-> strip_tz(astype_str(series[r]).v)]

parse_datetime_with_tz(series) ==
    [r \in 1..Len(series) |-> to_date(series_clean_of(series)[r])]

\* lines 67-68 and 70-71; with a repeated label the lambda receives a whole
\* column and re.sub raises TypeError
DateCol(st, col) ==
    IF ~st.ok \/ Locs(st.df, col) = {} THEN st
    ELSE IF Cardinality(Locs(st.df, col)) > 1 THEN [st EXCEPT !.ok = FALSE]
    ELSE LET i == TheLoc(st.df, col)
         IN  [st EXCEPT !.clean[i] = series_clean_of(st.df.data[i]),
                        !.df.data[i] = parse_datetime_with_tz(@)]

RECURSIVE DateLoop(_, _)
DateLoop(st, cols) ==
    IF cols = <<>> THEN st ELSE DateLoop(DateCol(st, Head(cols)), Tail(cols))

\* lines 75-76: pd.to_numeric(...).astype("Int64")
ReservedCol(st, col) ==
    IF ~st.ok \/ Locs(st.df, col) = {} THEN st
    ELSE IF Cardinality(Locs(st.df, col)) > 1 THEN [st EXCEPT !.ok = FALSE]
    ELSE LET i == TheLoc(st.df, col)
             numbers == to_numeric_series(st.df.data[i])
         IN  IF \E r \in 1..Len(numbers) : ~CanCastInt64(numbers[r])
             THEN [st EXCEPT !.ok = FALSE]
             ELSE [st EXCEPT !.df.data[i] = astype_Int64_series(numbers)]

RECURSIVE ReservedLoop(_, _)
ReservedLoop(st, cols) ==
    IF cols = <<>> THEN st ELSE ReservedLoop(ReservedCol(st, Head(cols)), Tail(cols))

\* mutant: the whole frame is cast to text, not only the listed columns
StringColAll(st, col) ==
    [st EXCEPT !.df.data = [i \in 1..Len(@) |-> astype_str_series(@[i])]]

\* lines 81-82: df[col] = df[col].astype(str), on every column df[col] selects
StringCol(st, col) ==
    [st EXCEPT !.df.data =
        [i \in 1..Len(@) |-> IF i \in Locs(st.df, col) THEN astype_str_series(@[i]) ELSE @[i]]]

RECURSIVE StringLoop(_, _)
StringLoop(st, cols) ==
    IF cols = <<>> THEN st ELSE StringLoop(StringCol(st, Head(cols)), Tail(cols))

\* line 85: df["load_time"] = datetime.utcnow(); an existing label is
\* overwritten where it stands, a new label is appended as the last column
AddLoadTime(d, now) ==
    LET stamp == [r \in 1..NRows(d) |-> Timestamp(now)]
    IN  IF Locs(d, "load_time") = {}
        THEN [columns |-> Append(d.columns, <<"l", "o", "a", "d", "_", "t", "i", "m", "e">>),
              data |-> Append(d.data, stamp)]
        ELSE [d EXCEPT !.data =
                 [i \in 1..Len(@) |-> IF i \in Locs(d, "load_time") THEN stamp ELSE @[i]]]

\* lines 53-85 from top to bottom, for a file the stage accepts
RunScript(file, now) ==
    LET a == NumericLoop(Started(CleanColumns(file)), numeric_fields)
        b == DateLoop(DateLoop(a, datetime_fields), <<business_day>>)
        c == ReservedLoop(b, reserved_fields)
        d == StringLoop(c, string_columns)
    IN  AddLoadTime(d.df, now)

(***************************************************************************)
(* Uploaded files.  pd.read_csv / pd.read_excel with dtype=str give every  *)
(* cell as text, an empty cell as NaN, and distinct raw headers.           *)
(***************************************************************************)
H_TotalAmount == <<"T", "o", "t", "a", "l", " ", "A", "m", "o", "u", "n", "t">>
H_total_amount == <<"t", "o", "t", "a", "l", "-", "a", "m", "o", "u", "n", "t">>
H_Reserved15 == <<"R", "e", "s", "e", "r", "v", "e", "d", "1", "5">>
H_SettlementDateTime ==
    <<"S", "e", "t", "t", "l", "e", "m", "e", "n", "t", " ", "D", "a", "t", "e", "/", "T", "i", "m", "e">>
H_BusinessDay == <<"B", "u", "s", "i", "n", "e", "s", "s", " ", "D", "a", "y">>
H_CardNumber == <<"C", "a", "r", "d", " ", "N", "u", "m", "b", "e", "r">>
H_LoadTime == <<"L", "o", "a", "d", " ", "T", "i", "m", "e">>
H_Memo == <<"M", "e", "m", "o">>
H_memo == <<"m", "e", "m", "o">>

T_12_0 == <<"1", "2", ".", "0">>
T_12_5 == <<"1", "2", ".", "5">>
T_7 == <<"7">>
T_abc == <<"a", "b", "c">>
T_xyz == <<"x", "y", "z">>
T_0001234 == <<"0", "0", "0", "1", "2", "3", "4">>
T_date_time ==
    <<"2", "0", "2", "4", "-", "0", "1", "-", "1", "5", " ", "1", "0", ":", "3", "0", ":", "0", "0">>
T_date_EST == T_date_time \o <<" ", "E", "S", "T">>
T_date_PM_EST == T_date_time \o <<" ", "P", "M", " ", "E", "S", "T">>

RawHeaders ==
    {H_TotalAmount, H_total_amount, H_Reserved15, H_SettlementDateTime, H_BusinessDay,
     H_CardNumber, H_LoadTime, H_Memo, H_memo}

\* the cells tried under each header
CellsOf(h) ==
    CASE h = H_TotalAmount -> {Text(T_abc)}
      [] h = H_total_amount -> {Text(T_7)}
      [] h = H_Reserved15 -> {Text(T_12_0), Text(T_12_5), Text(T_abc)}
      [] h = H_SettlementDateTime -> {Text(T_date_EST), Text(T_date_PM_EST)}
      [] h = H_BusinessDay -> {Text(T_abc)}
      [] h = H_CardNumber -> {Text(T_0001234), NaN}
      [] h = H_LoadTime -> {Text(T_abc)}
      [] h = H_Memo -> {Text(T_abc), NaN}
      [] h = H_memo -> {Text(T_xyz)}

HeaderRows(n) == {hs \in [1..n -> RawHeaders] : \A i, j \in 1..n : hs[i] = hs[j] => i = j}

RECURSIVE Columns(_, _)
Columns(hs, rows) ==
    IF hs = <<>> THEN {<<>>}
    ELSE {<<c>> \o rest : c \in [1..rows -> CellsOf(Head(hs))], rest \in Columns(Tail(hs), rows)}

Files ==
    UNION {{[columns |-> hs, data |-> d] : d \in Columns(hs, rows)} :
              hs \in UNION {HeaderRows(n) : n \in 1..MaxCols}, rows \in 1..MaxRows}

NoFile == [columns |-> <<>>, data |-> <<>>]

(***************************************************************************)
(* The script, lines 46-181                                                *)
(***************************************************************************)
Idle ==
    /\ col_in = <<>> /\ col_out = <<>> /\ col_again = <<>> /\ cpc = "off"

Init ==
    /\ Idle
    /\ raw \in Files
    /\ df = raw
    /\ series_clean = [i \in 1..Len(raw.columns) |-> <<>>]
    /\ pc = "read"
    /\ clock = 1
    /\ requests = 0
    /\ disposition = "none"
    /\ outcome = "none"
    /\ shown = {}
    /\ presses = 0

Untouched == UNCHANGED <<col_in, col_out, col_again, cpc, raw, clock>>

Quiet == UNCHANGED <<requests, disposition, outcome, shown, presses>>

\* line 54
CleanStep ==
    /\ pc = "read"
    /\ df' = CleanColumns(df)
    /\ pc' = "cleaned"
    /\ UNCHANGED series_clean
    /\ Untouched /\ Quiet

\* lines 57-63
NumericStep ==
    /\ pc = "cleaned"
    /\ LET st == NumericLoop(Started(df), numeric_fields)
       IN  /\ df' = st.df
           /\ pc' = IF st.ok THEN "numeric" ELSE "raised_numeric"
    /\ UNCHANGED series_clean
    /\ Untouched /\ Quiet

\* lines 66-71
DateStep ==
    /\ pc = "numeric"
    /\ LET st == DateLoop(DateLoop(Started(df), datetime_fields), <<business_day>>)
       IN  /\ df' = st.df
           /\ series_clean' = st.clean
           /\ pc' = IF st.ok THEN "dated" ELSE "raised_date"
    /\ Untouched /\ Quiet

\* lines 74-76
ReservedStep ==
    /\ pc = "dated"
    /\ LET st == ReservedLoop(Started(df), reserved_fields)
       IN  /\ df' = st.df
           /\ pc' = IF st.ok THEN "reserved" ELSE "raised_reserved"
    /\ UNCHANGED series_clean
    /\ Untouched /\ Quiet

\* lines 79-82
StringStep ==
    /\ pc = "reserved"
    /\ df' = StringLoop(Started(df), string_columns).df
    /\ pc' = "strings"
    /\ UNCHANGED series_clean
    /\ Untouched /\ Quiet

\* lines 85-89: the stamp, the preview, and the button not pressed
StampStep ==
    /\ pc = "strings"
    /\ df' = AddLoadTime(df, clock)
    /\ pc' = "rendered"
    /\ UNCHANGED series_clean
    /\ Untouched /\ Quiet

\* A press of the button reruns the script from the top with the button
\* true: lines 46-85 again, with a new utcnow(), then lines 89-172, which
\* issue one load job with WRITE_APPEND
PressLoad ==
    /\ pc \in {"rendered", "done"}
    /\ presses < MaxPresses
    /\ presses' = presses + 1
    /\ clock' = clock + 1
    /\ df' = RunScript(raw, clock')
    /\ requests' = 1
    /\ disposition' = "WRITE_APPEND"
    /\ outcome' = "none"
    /\ shown' = {}
    /\ pc' = "loading"
    /\ UNCHANGED <<col_in, col_out, col_again, cpc, raw, series_clean>>

\* lines 173-175: load_job.result() returns, st.success
LoadSucceeds ==
    /\ pc = "loading"
    /\ outcome' = "ok"
    /\ shown' = {"success"}
    /\ pc' = "done"
    /\ UNCHANGED <<df, series_clean, requests, disposition, presses>>
    /\ Untouched

\* mutant: a failed load job is issued once more before it is reported
LoadFailsRetry ==
    /\ pc = "loading"
    /\ requests < 2
    /\ requests' = requests + 1
    /\ UNCHANGED <<df, series_clean, pc, disposition, outcome, shown, presses>>
    /\ Untouched

\* lines 176-181: load_job.result() (or the call before it) raises
LoadFails ==
    /\ pc = "loading"
    /\ outcome' = "failed"
    /\ shown' = {"error", "dtypes", "head"}
    /\ pc' = "done"
    /\ UNCHANGED <<df, series_clean, requests, disposition, presses>>
    /\ Untouched

Next ==
    \/ CleanStep
    \/ NumericStep
    \/ DateStep
    \/ ReservedStep
    \/ StringStep
    \/ StampStep
    \/ PressLoad
    \/ LoadSucceeds
    \/ LoadFails

Spec == Init /\ [][Next]_vars

(***************************************************************************)
(* clean_column applied to a raw name, and again to its own result         *)
(***************************************************************************)
NameChars == {" ", "\t", "-", "/", "#", "_", "A", "b"}

Names == UNION {[1..n -> NameChars] : n \in 0..MaxNameLen}

InitClean ==
    /\ col_in \in Names
    /\ col_out = <<>> /\ col_again = <<>> /\ cpc = "raw"
    /\ raw = NoFile /\ df = NoFile /\ series_clean = <<>>
    /\ pc = "off" /\ clock = 0 /\ requests = 0 /\ disposition = "none"
    /\ outcome = "none" /\ shown = {} /\ presses = 0

Pipeline == UNCHANGED <<raw, df, series_clean, pc, clock, requests, disposition,
                        outcome, shown, presses>>

Normalize ==
    /\ cpc = "raw"
    /\ col_out' = clean_column(col_in)
    /\ cpc' = "clean"
    /\ UNCHANGED <<col_in, col_again>>
    /\ Pipeline

Renormalize ==
    /\ cpc = "clean"
    /\ col_again' = clean_column(col_out)
    /\ cpc' = "again"
    /\ UNCHANGED <<col_in, col_out>>
    /\ Pipeline

NextClean == Normalize \/ Renormalize

SpecClean == InitClean /\ [][NextClean]_vars

(***************************************************************************)
(* Properties                                                              *)
(***************************************************************************)
Raised == {"raised_numeric", "raised_date", "raised_reserved"}

LabelAt(d, i) == Str(d.columns[i])

Cols(d) == 1..Len(d.columns)

\* C1: the coercion stage never raises, keeps the number of rows, and leaves
\* a missing value wherever a cell could not be converted
C1_CoercionNeverRaises ==
    /\ pc \notin Raised
    /\ pc = "strings" =>
          \A i \in Cols(df) :
              /\ Len(df.data[i]) = Len(raw.data[i])
              /\ \A r \in 1..Len(df.data[i]) :
                    \/ df.data[i][r].t \in {"num", "int", "date"}
                    \/ IsMissing(df.data[i][r])
                    \/ LabelAt(df, i) \notin Range(numeric_fields) \cup DateNames

\* C2 as stated: clean_column(clean_column(s)) = clean_column(s) for every
\* raw column name s
C2_Idempotent == cpc = "again" => col_again = col_out

\* C2: clean_column(clean_column(s)) = clean_column(s) for every raw column
\* name s whose normalized form clean_column(s) holds no doubled underscore
C2_IdempotentWithoutDoubledUnderscore ==
    (cpc = "again" /\ ~HasDoubledUnderscore(col_out)) => col_again = col_out

C2_Witness ==
    /\ cpc = "again"
    /\ ~HasDoubledUnderscore(col_out)
    /\ col_out # col_in
    /\ Contains(col_out, "_") /\ Contains(col_out, "n")

\* C8: the output of clean_column holds no space, no hyphen and no slash
C8_NoSeparatorLeft ==
    cpc \in {"clean", "again"} =>
        ~(Contains(col_out, " ") \/ Contains(col_out, "-") \/ Contains(col_out, "/"))

C8_Witness ==
    /\ cpc = "clean"
    /\ Contains(col_in, " ") /\ Contains(col_in, "-") /\ Contains(col_in, "/")

\* the text C3 says reaches the parser: the cell's text without a trailing
\* token of 2-4 uppercase letters and the whitespace around that token
TrailingZoneRemoved(s) ==
    LET t == RStrip(s)
        ks == {k \in 2..4 : k <= Len(t) /\ MatchAt(t, Len(t) - k + 1, k)}
    IN  IF ks = {} THEN s
        ELSE RStrip(SubSeq(t, 1, Len(t) - (CHOOSE k \in ks : TRUE)))

\* C3: for every text cell of a date column, the text handed to the date
\* parser is the cell's text less a trailing 2-4 letter uppercase token and
\* its surrounding whitespace, and the stored value is that text's date
C3_OnlyTrailingZoneRemoved ==
    pc = "dated" =>
        \A i \in Cols(df) :
            LabelAt(df, i) \in DateNames =>
                \A r \in 1..Len(raw.data[i]) :
                    raw.data[i][r].t = "str" =>
                        /\ series_clean[i][r] = TrailingZoneRemoved(raw.data[i][r].v)
                        /\ df.data[i][r] = to_date(series_clean[i][r])

\* the whole number n/d rounds to
Rounded(n, d) == (2 * n + d) \div (2 * d)

\* C4: once the reserved step has run, every cell of a reserved column is
\* missing when its text is not a number and otherwise is the whole number
\* its numeric value rounds to
C4_ReservedStoredWhole ==
    pc \in {"reserved", "raised_reserved", "strings", "rendered", "loading", "done"} =>
        \A i \in Cols(raw) :
            LabelAt(CleanColumns(raw), i) \in Range(reserved_fields) =>
                \A r \in 1..Len(raw.data[i]) :
                    LET n == to_numeric(raw.data[i][r])
                    IN  df.data[i][r] =
                            IF n.t = "nan" THEN NA ELSE Int64(Rounded(n.v[1], n.v[2]))

\* raw headers at i < j that normalize to the same canonical name
Collide(i, j) ==
    /\ i < j
    /\ raw.columns[i] # raw.columns[j]
    /\ clean_column(raw.columns[i]) = clean_column(raw.columns[j])

\* C5 as stated: when two distinct raw headers normalize to the same name,
\* the normalized batch holds one column under that name, with the later
\* column's values
C5_LaterColumnOverwrites ==
    pc = "cleaned" =>
        \A i, j \in Cols(raw) :
            Collide(i, j) =>
                \E k \in Cols(df) :
                    /\ Locs(df, Str(clean_column(raw.columns[j]))) = {k}
                    /\ df.data[k] = raw.data[j]

\* C5: when two distinct raw headers normalize to the same name, the
\* normalized batch holds both columns under that name, each where it stood
\* and with its own values; and no other column is moved or dropped
C5_CollidingColumnsBothKept ==
    pc = "cleaned" =>
        /\ Len(df.columns) = Len(raw.columns)
        /\ \A i \in Cols(raw) :
              /\ df.columns[i] = clean_column(raw.columns[i])
              /\ df.data[i] = raw.data[i]
        /\ \A i, j \in Cols(raw) :
              Collide(i, j) => {i, j} \subseteq Locs(df, Str(clean_column(raw.columns[j])))

C5_Witness ==
    /\ pc = "cleaned"
    /\ \E i, j \in Cols(raw) :
          Collide(i, j) /\ df.columns[i] = df.columns[j] /\ df.data[i] # df.data[j]

\* the columns whose every cell is a load timestamp
Stamped(d) == {i \in Cols(d) : \A r \in 1..Len(d.data[i]) : d.data[i][r].t = "datetime"}

\* C6: the batch handed to the append call has exactly one column holding
\* the processing timestamp, it is the last column, and its value is the
\* same in every row
C6_OneTimestampColumnLast ==
    pc = "loading" =>
        /\ Stamped(df) = {Len(df.columns)}
        /\ \A r \in 1..NRows(df) : df.data[Len(df.columns)][r] = Timestamp(clock)

CoercionPcs == {"numeric", "dated", "reserved", "strings"} \cup Raised

\* C7: during and after the coercion stage the columns are those of the
\* normalized batch, in the same order, and every column whose name is in
\* none of the fixed groups holds exactly the cells it was read with
C7_CoercionFrame ==
    pc \in CoercionPcs =>
        /\ df.columns = CleanColumns(raw).columns
        /\ Len(df.data) = Len(raw.data)
        /\ \A i \in Cols(df) : LabelAt(df, i) \notin GroupNames => df.data[i] = raw.data[i]

C7_Witness ==
    /\ pc = "strings"
    /\ \E i \in Cols(df) :
          LabelAt(df, i) \notin GroupNames /\ \E r \in 1..Len(df.data[i]) : df.data[i][r] = NaN
    /\ \E j \in Cols(df) : LabelAt(df, j) \in GroupNames /\ df.data[j] # raw.data[j]

\* C9: a press of the load button issues exactly one load job, with append
\* disposition; the success message is shown only when the job succeeded,
\* the error with the dtypes and the head only when it failed, never both
C9_OneAppendOneMessage ==
    /\ requests <= 1
    /\ pc = "loading" =>
          requests = 1 /\ disposition = "WRITE_APPEND" /\ shown = {} /\ outcome = "none"
    /\ pc = "done" =>
          /\ requests = 1 /\ disposition = "WRITE_APPEND"
          /\ outcome \in {"ok", "failed"}
          /\ outcome = "ok" => shown = {"success"}
          /\ outcome = "failed" => shown = {"error", "dtypes", "head"}

C9_Witness == pc = "done" /\ outcome = "failed" /\ "error" \in shown /\ presses = 1

\* C10: the forced-text step changes no cell of the forced-text columns: a
\* text stays the same text and a missing cell stays missing
C10_ForcedTextKeepsCells ==
    pc = "strings" =>
        \A i \in Cols(df) :
            LabelAt(df, i) \in Range(string_columns) =>
                \A r \in 1..Len(df.data[i]) :
                    /\ raw.data[i][r].t = "str" => df.data[i][r] = raw.data[i][r]
                    /\ IsMissing(raw.data[i][r]) => IsMissing(df.data[i][r])

====
